---- MODULE Spec2Model ----
(***************************************************************************)
(* The workflow execution engine of workflows/tasks.py: the Celery task    *)
(* execute_workflow_task, the step registry execute_step, the start        *)
(* endpoint of workflows/views.py that creates an execution and enqueues   *)
(* its dispatch, and the rows of workflows/models.py they read and write.  *)
(*                                                                         *)
(* Every access to the store (one ORM read or save) and every handler      *)
(* invocation is one action of a worker; the computation between two       *)
(* accesses is local to the worker and belongs to the action before it.    *)
(***************************************************************************)
EXTENDS Integers, Sequences, FiniteSets, TLC

VARIABLES
    steps,        \* Workflow.steps of the workflow whose executions the workers run
    workflows,    \* the workflows table: id -> row
    request,      \* the steps value of the create or update request handled last
    response,     \* the response to the API request that was answered last
    executions,   \* the workflow_executions table: id -> row
    logs,         \* the execution_logs table, in insertion order
    queue,        \* the broker: dispatch messages not yet delivered
    workers,      \* each worker process: its position and its local values
    unsaved,      \* start requests that have enqueued but not yet saved task_id
    clock,        \* the number of timezone.now() readings taken so far
    nextTaskId,   \* the next fresh Celery task id
    dispatched,   \* the number of dispatches enqueued besides start and retry
    edits,        \* the number of saves of the admin change form
    ended,        \* the run that ended last: its message, its rows and its result
    calls,        \* history: the handler invocations, in order
    scheduled     \* history: the retries handed to the broker, in order

vars == <<steps, workflows, request, response, executions, logs, queue, workers, unsaved, clock, nextTaskId,
          dispatched, edits, ended, calls, scheduled>>

----------------------------------------------------------------------------
\* Bounds of the model.

\* The longest workflow (number of steps) Init draws.
MaxSteps == 2

\* The number of dispatches enqueued besides the start endpoint's and the retries.
MaxDispatch == 1

\* The number of times the admin change form is saved.
MaxEdits == 3

\* The longest steps array a create or update request carries.
MaxItems == 2

----------------------------------------------------------------------------
\* Program constants.

\* @shared_task(bind=True, max_retries=3, ...)
max_retries == 3

\* retry_delay = 60 * (2 ** retry_count)
base_delay == 60

\* A null column (null=True) and the id no task has.
NULL == 0

----------------------------------------------------------------------------
\* Values.

CREATED == "CREATED"
RUNNING == "RUNNING"
SUCCESS == "SUCCESS"
FAILED == "FAILED"

\* The execution ids the start endpoint hands out, and an id no row has.
ExecIds == {"e1"}
GhostId == "ghost"

\* The users of the API, the ids the workflows table hands out, and the user and
\* the workflow of the executions the workers run.
Users == {"alice", "bob"}
WorkflowIds == {"wf1", "wf2"}
Owner == "alice"
TheWorkflow == "wf1"

\* The worker processes there can be, and the pool of the engine run with one
\* worker, where dispatches never overlap.
Workers == {"w1", "w2"}
Pool == {"w1"}

\* A step without the 'name' key.
NoName == "<no name>"

\* The step dictionaries Init builds workflows from.
StepSpecs ==
    { [type |-> "data_fetch", name |-> "Fetch"],
      [type |-> "ai_inference", name |-> NoName],
      [type |-> "invalid_type", name |-> "Bad"] }

SeqsUpTo(S, n) == UNION { [1..k -> S] : k \in 0..n }

\* Text is modelled by its parts: every message is a record with a kind.
NoMessage == [kind |-> "null"]
AlreadyCompleted == [kind |-> "Execution already completed"]
NotFound == [kind |-> "Execution not found"]
CompletedOk == [kind |-> "Workflow completed successfully"]

\* f"Starting {step_type} step"
StartingMessage(step_type) == [kind |-> "Starting step", type |-> step_type]

\* f"Step failed: {str(step_error)}"
StepFailedMessage(step_error) == [kind |-> "Step failed", cause |-> step_error]

\* f"Failed at step {step_index} ({step_name}): {str(step_error)}"
FailedAtMessage(step_index, step_name, step_error) ==
    [kind |-> "Failed at step", step_index |-> step_index,
     step_name |-> step_name, cause |-> step_error]

\* Mutant of UnexpectedMessage: the message of a step failure.
UnexpectedMessage_StepFailed(e) == [kind |-> "Step failed", cause |-> e]

\* f"Unexpected error: {str(e)}"
UnexpectedMessage(e) == [kind |-> "Unexpected error", cause |-> e]

\* ValueError(f"Unknown step type: {step_type}")
UnknownStepType(step_type) == [kind |-> "Unknown step type", type |-> step_type]

\* An exception raised by a handler.
HandlerError == [kind |-> "handler error"]

\* The exception self.retry(exc=..., countdown=...) raises.
RetryException(exc, countdown) ==
    [kind |-> "Retry", exc |-> exc, countdown |-> countdown]

\* The exception a save() or a create() raises when the store fails the write.
DatabaseError == [kind |-> "database error"]

NoError == [kind |-> "none"]

----------------------------------------------------------------------------
\* The rows.

\* A JSON array, as the steps column and the request body hold it.
JsonList(items) == [json |-> "list", items |-> items]

\* Workflow(user=..., steps=...)
NewWorkflow(id, user, value) == [id |-> id, user |-> user, steps |-> value]

\* Response(data, status=...) to the request of `user`.
Response(user, status, data) == [user |-> user, status |-> status, data |-> data]

NoResponse == Response("none", 0, [kind |-> "none"])

\* No create or update request was handled yet.
NoBody == [json |-> "none"]

\* Mutant of NewExecution: the new row is RUNNING.
NewExecution_Running(id, workflow) ==
    [id |-> id, workflow |-> workflow, status |-> "RUNNING", current_step |-> 0,
     started_at |-> NULL, finished_at |-> NULL, error_message |-> NoMessage,
     task_id |-> NULL]

\* WorkflowExecution.objects.create(workflow=workflow, status=CREATED)
NewExecution(id, workflow) ==
    [id |-> id, workflow |-> workflow, status |-> CREATED, current_step |-> 0, started_at |-> NULL,
     finished_at |-> NULL, error_message |-> NoMessage, task_id |-> NULL]

NoExecution ==
    [id |-> "none", workflow |-> "none", status |-> "none", current_step |-> 0, started_at |-> NULL,
     finished_at |-> NULL, error_message |-> NoMessage, task_id |-> NULL]

\* Mutant of Save: the whole object is written.
Save_AllFields(row, obj, update_fields) == obj

\* Model.save(update_fields=...): the named columns take the object's values.
Save(row, obj, update_fields) ==
    [f \in DOMAIN row |-> IF f \in update_fields THEN obj[f] ELSE row[f]]

\* A dispatch message: the task id, its argument, request.retries, the countdown.
Message(id, execution_id, retries, countdown) ==
    [id |-> id, execution_id |-> execution_id, retries |-> retries,
     countdown |-> countdown]

NoRequest == Message(NULL, "none", 0, 0)

NoResult == [kind |-> "none"]
Returned(status, message, total_steps) ==
    [kind |-> "return", status |-> status, message |-> message,
     total_steps |-> total_steps]
Raised(exc) == [kind |-> "raise", exc |-> exc]

\* The key total_steps is absent from a result.
NoTotal == -1

\* except WorkflowExecution.DoesNotExist: the task returns the ERROR result.
\* Mutant of DoesNotExistResult: the exception leaves the task.
DoesNotExistResult_Raises == Raised(NotFound)

DoesNotExistResult == Returned("ERROR", NotFound, NoTotal)

IdleWorker ==
    [pc |-> "idle", request |-> NoRequest, execution |-> NoExecution,
     entry |-> NoExecution, step_index |-> 0, log_entry |-> 0,
     step_result |-> NoMessage, step_error |-> NoError]

\* A run that ended: the message it ran, the row as it fetched it (entry), the
\* row object as it left it (execution) and what the task returned or raised.
Ended(wk, result) ==
    [request |-> wk.request, entry |-> wk.entry, execution |-> wk.execution,
     result |-> result]

NoRun == Ended(IdleWorker, NoResult)

----------------------------------------------------------------------------
\* execute_step and the handlers.

execute_data_fetch == [success |-> TRUE, message |-> [kind |-> "fetched data"]]
execute_data_process == [success |-> TRUE, message |-> [kind |-> "processed data"]]
execute_ai_inference == [success |-> TRUE, message |-> [kind |-> "ran inference"]]
execute_notify_user == [success |-> TRUE, message |-> [kind |-> "sent notification"]]

step_handlers ==
    [t \in {"data_fetch", "data_process", "ai_inference", "notify_user"} |->
        CASE t = "data_fetch" -> execute_data_fetch
          [] t = "data_process" -> execute_data_process
          [] t = "ai_inference" -> execute_ai_inference
          [] t = "notify_user" -> execute_notify_user]

\* step.get('name', f"Step {step_index}")
StepName(step, step_index) ==
    IF step.name # NoName THEN <<step.name>> ELSE <<"Step", step_index>>

----------------------------------------------------------------------------
\* The decisions of execute_workflow_task.

\* Mutants of IsCompleted: the check lets a FAILED row, or a SUCCESS row, through.
IsCompleted_NotCreated(status) == status # CREATED
IsCompleted_OnlySuccess(status) == status = SUCCESS
IsCompleted_OnlyFailed(status) == status = FAILED

\* if execution.status in [Status.SUCCESS, Status.FAILED]
IsCompleted(status) == status \in {SUCCESS, FAILED}

\* Mutant of IsCreated: the row is never marked RUNNING.
IsCreated_Never(status) == FALSE

\* if execution.status == WorkflowExecution.Status.CREATED
IsCreated(status) == status = CREATED

\* Mutants of SkipStep: nothing is skipped; the last completed step is not.
SkipStep_Never(step_index, current_step) == FALSE
SkipStep_OffByOne(step_index, current_step) == step_index + 1 < current_step

\* if step_index < execution.current_step: continue
SkipStep(step_index, current_step) == step_index < current_step

\* The index the loop of enumerate(steps) stops at next, from index `from` on:
\* the first one that is not skipped, or len(steps) when the loop runs out.
NextIndex(from, current_step, total_steps) ==
    LET todo == { j \in from..(total_steps - 1) : ~SkipStep(j, current_step) }
    IN  IF todo = {} THEN total_steps
        ELSE CHOOSE j \in todo : \A k \in todo : j <= k

\* Mutant of NextCurrentStep: the checkpoint is the step just run.
NextCurrentStep_SameStep(step_index) == step_index

\* execution.current_step = step_index + 1
NextCurrentStep(step_index) == step_index + 1

\* Mutant of ShouldRetry: one retry too many.
ShouldRetry_Inclusive(retry_count) == retry_count <= max_retries

\* if retry_count < self.max_retries
ShouldRetry(retry_count) == retry_count < max_retries

\* Mutant of retry_delay: a linear backoff.
retry_delay_Linear(retry_count) == base_delay * (retry_count + 1)

\* retry_delay = 60 * (2 ** retry_count)
retry_delay(retry_count) == base_delay * (2 ^ retry_count)

\* Where a worker stands after the loop header has run from index `from`.
LoopFrom(wk, from) ==
    LET j == NextIndex(from, wk.execution.current_step, Len(steps))
    IN  IF j < Len(steps)
        THEN [wk EXCEPT !.pc = "create_log", !.step_index = j]
        ELSE [wk EXCEPT !.pc = "mark_success", !.step_index = j]

----------------------------------------------------------------------------
Init ==
    /\ steps \in SeqsUpTo(StepSpecs, MaxSteps)
    /\ executions = << >>
    /\ logs = << >>
    /\ queue = {}
    /\ workflows = (TheWorkflow :> NewWorkflow(TheWorkflow, Owner, JsonList(steps)))
    /\ request = NoBody
    /\ response = NoResponse
    /\ workers = [w \in Pool |-> IdleWorker]
    /\ unsaved = {}
    /\ clock = 0
    /\ nextTaskId = 1
    /\ dispatched = 0
    /\ edits = 0
    /\ ended = NoRun
    /\ calls = << >>
    /\ scheduled = << >>

----------------------------------------------------------------------------
\* workflows/views.py: the start endpoint.

\* Mutant of WorkflowViewSet_get_queryset: the rows of every user.
WorkflowViewSet_get_queryset_All(user) == DOMAIN workflows

\* Workflow.objects.filter(user=self.request.user): the ids of the rows.
WorkflowViewSet_get_queryset(user) ==
    { wf \in DOMAIN workflows : workflows[wf].user = user }

\* IsWorkflowOwner.has_object_permission for a Workflow and for an execution.
has_object_permission(user, obj) ==
    IF "user" \in DOMAIN obj THEN obj.user = user
    ELSE IF "workflow" \in DOMAIN obj THEN workflows[obj.workflow].user = user
    ELSE FALSE

\* self.get_object() of a workflow route finds the workflow, else it is a 404.
GetWorkflow(user, wf) ==
    /\ wf \in WorkflowViewSet_get_queryset(user)
    /\ has_object_permission(user, workflows[wf])

\* The body of the 202 response of the start endpoint.
StartData(execution, task_id) ==
    [kind |-> "Workflow execution started", execution_id |-> execution.id,
     task_id |-> task_id, status |-> execution.status]

\* workflow = self.get_object(); WorkflowExecution.objects.create(...) and
\* execute_workflow_task.delay(id).
Start(u, wf, e) ==
    /\ GetWorkflow(u, wf)
    /\ e \notin DOMAIN executions
    /\ executions' = (e :> NewExecution(e, wf)) @@ executions
    /\ queue' = queue \cup {Message(nextTaskId, e, 0, 0)}
    /\ unsaved' = unsaved \cup {[user |-> u, execution |-> NewExecution(e, wf),
                                 task_id |-> nextTaskId]}
    /\ nextTaskId' = nextTaskId + 1
    /\ UNCHANGED <<steps, workflows, request, response, logs, workers, clock, dispatched,
                   edits, ended, calls, scheduled>>

\* execution.task_id = task.id; execution.save(update_fields=['task_id']);
\* return Response({...}, status=202)
SaveTaskId(r) ==
    /\ r \in unsaved
    /\ LET execution == [r.execution EXCEPT !.task_id = r.task_id]
       IN  /\ executions' = [executions EXCEPT ![execution.id] =
                                 Save(@, execution, {"task_id"})]
           /\ response' = Response(r.user, 202, StartData(execution, r.task_id))
    /\ unsaved' = unsaved \ {r}
    /\ UNCHANGED <<steps, workflows, request, logs, queue, workers, clock, nextTaskId,
                   dispatched, edits, ended, calls, scheduled>>

\* Another dispatch of an execution id: a duplicate enqueue of an id the store
\* holds, or a dispatch of an id it does not hold.
Dispatch(e) ==
    /\ e \in DOMAIN executions \cup {GhostId}
    /\ queue' = queue \cup {Message(nextTaskId, e, 0, 0)}
    /\ nextTaskId' = nextTaskId + 1
    /\ dispatched' = dispatched + 1
    /\ UNCHANGED <<steps, workflows, request, response, executions, logs, workers, unsaved, clock, edits, ended,
                   calls, scheduled>>

----------------------------------------------------------------------------
\* workflows/tasks.py: execute_workflow_task, one worker's run of one message.

\* Worker w is a process of the pool and stands at `pc`.
At(w, pc) == w \in DOMAIN workers /\ workers[w].pc = pc

\* The run of worker w goes on as wk, or ends with a result.
Continue(w, wk) ==
    /\ workers' = [workers EXCEPT ![w] = wk]
    /\ UNCHANGED ended

Finish(w, wk, result) ==
    /\ workers' = [workers EXCEPT ![w] = IdleWorker]
    /\ ended' = Ended(wk, result)

\* Fetching a message: the row is fetched (DoesNotExist: the ERROR result),
\* the idempotency check returns for a completed row, a CREATED row is next
\* marked RUNNING, any other row goes straight to the loop.
Fetch(w, m) ==
    /\ At(w, "idle")
    /\ m \in queue
    /\ queue' = queue \ {m}
    /\ LET wk == [IdleWorker EXCEPT !.request = m]
       IN  IF m.execution_id \notin DOMAIN executions
           THEN Finish(w, wk, DoesNotExistResult)
           ELSE LET execution == executions[m.execution_id]
                    run == [wk EXCEPT !.execution = execution,
                                      !.entry = execution]
                IN  IF IsCompleted(execution.status)
                    THEN Finish(w, run, Returned(execution.status,
                                                 AlreadyCompleted, NoTotal))
                    ELSE IF IsCreated(execution.status)
                    THEN Continue(w, [run EXCEPT !.pc = "mark_running"])
                    ELSE Continue(w, LoopFrom(run, 0))
    /\ UNCHANGED <<steps, workflows, request, response, executions, logs, unsaved, clock, nextTaskId,
                   dispatched, edits, calls, scheduled>>

\* status = RUNNING, started_at = now(), task_id = self.request.id, saved.
MarkRunning(w) ==
    /\ At(w, "mark_running")
    /\ clock' = clock + 1
    /\ LET wk == workers[w]
           execution == [wk.execution EXCEPT !.status = RUNNING,
                                             !.started_at = clock',
                                             !.task_id = wk.request.id]
       IN  /\ executions' = [executions EXCEPT ![execution.id] =
                   Save(@, execution, {"status", "started_at", "task_id"})]
           /\ workers' = [workers EXCEPT ![w] =
                   LoopFrom([wk EXCEPT !.execution = execution], 0)]
    /\ UNCHANGED <<steps, workflows, request, response, logs, queue, unsaved, nextTaskId, dispatched, edits, ended, calls,
                   scheduled>>

\* ExecutionLog.objects.create(..., status=RUNNING, message="Starting ...").
CreateLog(w) ==
    /\ At(w, "create_log")
    /\ LET wk == workers[w]
           step == steps[wk.step_index + 1]
       IN  /\ logs' = Append(logs,
                   [execution |-> wk.execution.id,
                    step_index |-> wk.step_index,
                    step_name |-> StepName(step, wk.step_index),
                    status |-> RUNNING,
                    message |-> StartingMessage(step.type)])
           /\ workers' = [workers EXCEPT ![w] =
                   [wk EXCEPT !.pc = "execute_step", !.log_entry = Len(logs')]]
    /\ UNCHANGED <<steps, workflows, request, response, executions, queue, unsaved, clock, nextTaskId,
                   dispatched, edits, ended, calls, scheduled>>

\* execute_step with a type the registry does not know: ValueError, no handler.
ExecuteUnknownStep(w) ==
    /\ At(w, "execute_step")
    /\ LET wk == workers[w]
           step_type == steps[wk.step_index + 1].type
       IN  /\ step_type \notin DOMAIN step_handlers
           /\ workers' = [workers EXCEPT ![w] =
                   [wk EXCEPT !.pc = "log_failed",
                              !.step_error = UnknownStepType(step_type)]]
    /\ UNCHANGED <<steps, workflows, request, response, executions, logs, queue, unsaved, clock, nextTaskId,
                   dispatched, edits, ended, calls, scheduled>>

\* execute_step with a known type: the handler runs, and returns or raises.
ExecuteStep(w, ok) ==
    /\ At(w, "execute_step")
    /\ LET wk == workers[w]
           step_type == steps[wk.step_index + 1].type
       IN  /\ step_type \in DOMAIN step_handlers
           /\ calls' = Append(calls,
                   [execution |-> wk.execution.id, task |-> wk.request.id,
                    retries |-> wk.request.retries,
                    step_index |-> wk.step_index])
           /\ workers' = [workers EXCEPT ![w] =
                   IF ok
                   THEN [wk EXCEPT !.pc = "log_success",
                              !.step_result = step_handlers[step_type].message]
                   ELSE [wk EXCEPT !.pc = "log_failed",
                              !.step_error = HandlerError]]
    /\ UNCHANGED <<steps, workflows, request, response, executions, logs, queue, unsaved, clock, nextTaskId,
                   dispatched, edits, ended, scheduled>>

\* log_entry.status = SUCCESS, message = step_result['message'], saved.
LogSuccess(w) ==
    /\ At(w, "log_success")
    /\ LET wk == workers[w]
       IN  /\ logs' = [logs EXCEPT ![wk.log_entry] =
                   [@ EXCEPT !.status = SUCCESS, !.message = wk.step_result]]
           /\ workers' = [workers EXCEPT ![w] = [wk EXCEPT !.pc = "advance"]]
    /\ UNCHANGED <<steps, workflows, request, response, executions, queue, unsaved, clock, nextTaskId,
                   dispatched, edits, ended, calls, scheduled>>

\* execution.current_step = step_index + 1, saved; then the next loop turn.
Advance(w) ==
    /\ At(w, "advance")
    /\ LET wk == workers[w]
           execution == [wk.execution EXCEPT
                            !.current_step = NextCurrentStep(wk.step_index)]
       IN  /\ executions' = [executions EXCEPT ![execution.id] =
                   Save(@, execution, {"current_step"})]
           /\ workers' = [workers EXCEPT ![w] =
                   LoopFrom([wk EXCEPT !.execution = execution],
                            wk.step_index + 1)]
    /\ UNCHANGED <<steps, workflows, request, response, logs, queue, unsaved, clock, nextTaskId, dispatched, edits, ended,
                   calls, scheduled>>

\* except Exception as step_error: log_entry.status = FAILED, saved.
LogFailed(w) ==
    /\ At(w, "log_failed")
    /\ LET wk == workers[w]
       IN  /\ logs' = [logs EXCEPT ![wk.log_entry] =
                   [@ EXCEPT !.status = FAILED,
                             !.message = StepFailedMessage(wk.step_error)]]
           /\ workers' = [workers EXCEPT ![w] = [wk EXCEPT !.pc = "mark_failed"]]
    /\ UNCHANGED <<steps, workflows, request, response, executions, queue, unsaved, clock, nextTaskId,
                   dispatched, edits, ended, calls, scheduled>>

\* status = FAILED, finished_at = now(), error_message = "Failed at ...", saved;
\* then retry_count = self.request.retries: if retry_count < self.max_retries
\* the task goes on to self.retry(...), else it returns
\* {'status': 'FAILED', 'message': execution.error_message, ...}.
MarkFailed(w) ==
    /\ At(w, "mark_failed")
    /\ clock' = clock + 1
    /\ LET wk == workers[w]
           step_name == StepName(steps[wk.step_index + 1], wk.step_index)
           execution == [wk.execution EXCEPT
                            !.status = FAILED,
                            !.finished_at = clock',
                            !.error_message = FailedAtMessage(
                                wk.step_index, step_name, wk.step_error)]
       IN  /\ executions' = [executions EXCEPT ![execution.id] =
                   Save(@, execution, {"status", "finished_at", "error_message"})]
           /\ IF ShouldRetry(wk.request.retries)
              THEN Continue(w, [wk EXCEPT !.pc = "retry",
                                          !.execution = execution])
              ELSE Finish(w, [wk EXCEPT !.execution = execution],
                          Returned(FAILED, execution.error_message, NoTotal))
    /\ UNCHANGED <<steps, workflows, request, response, logs, queue, unsaved, nextTaskId, dispatched, edits, calls,
                   scheduled>>

\* raise self.retry(exc=step_error, countdown=retry_delay): the retry message
\* goes to the broker with retries + 1 and the Retry exception is raised
\* inside the task's outer try.
ScheduleRetry(w) ==
    /\ At(w, "retry")
    /\ LET wk == workers[w]
           retry_count == wk.request.retries
       IN  /\ queue' = queue \cup
                   {Message(wk.request.id, wk.request.execution_id,
                            retry_count + 1, retry_delay(retry_count))}
           /\ scheduled' = Append(scheduled,
                   [execution |-> wk.request.execution_id,
                    task |-> wk.request.id,
                    retries |-> retry_count,
                    countdown |-> retry_delay(retry_count),
                    step_index |-> wk.step_index,
                    cause |-> wk.step_error])
           /\ workers' = [workers EXCEPT ![w] =
                   [wk EXCEPT !.pc = "unexpected",
                              !.step_error = RetryException(
                                  wk.step_error, retry_delay(retry_count))]]
    /\ UNCHANGED <<steps, workflows, request, response, executions, logs, unsaved, clock, nextTaskId,
                   dispatched, edits, ended, calls>>

\* status = SUCCESS, finished_at = now(), saved; return {'status': 'SUCCESS', ...}
MarkSuccess(w) ==
    /\ At(w, "mark_success")
    /\ clock' = clock + 1
    /\ LET wk == workers[w]
           execution == [wk.execution EXCEPT !.status = SUCCESS,
                                             !.finished_at = clock']
       IN  /\ executions' = [executions EXCEPT ![execution.id] =
                   Save(@, execution, {"status", "finished_at"})]
           /\ Finish(w, [wk EXCEPT !.execution = execution],
                      Returned(SUCCESS, CompletedOk, Len(steps)))
    /\ UNCHANGED <<steps, workflows, request, response, logs, queue, unsaved, nextTaskId, dispatched, edits, calls,
                   scheduled>>

\* except Exception as e: the row is fetched again, marked FAILED with
\* "Unexpected error: ..." and saved; then the exception is raised again.
UnexpectedError(w) ==
    /\ At(w, "unexpected")
    /\ clock' = clock + 1
    /\ LET wk == workers[w]
           execution == [executions[wk.request.execution_id] EXCEPT
                            !.status = FAILED,
                            !.finished_at = clock',
                            !.error_message = UnexpectedMessage(wk.step_error)]
       IN  /\ executions' = [executions EXCEPT ![execution.id] =
                   Save(@, execution, {"status", "finished_at", "error_message"})]
           /\ Finish(w, [wk EXCEPT !.execution = execution],
                      Raised(wk.step_error))
    /\ UNCHANGED <<steps, workflows, request, response, logs, queue, unsaved, nextTaskId, dispatched, edits, calls,
                   scheduled>>

\* The worker process dies: its message and its local values are lost and the
\* task returns nothing; what it saved stays.
Crash(w) ==
    /\ w \in DOMAIN workers
    /\ ~At(w, "idle")
    /\ workers' = [workers EXCEPT ![w] = IdleWorker]
    /\ UNCHANGED <<steps, workflows, request, response, executions, logs, queue, unsaved, clock, nextTaskId,
                   dispatched, edits, ended, calls, scheduled>>

\* One step of one worker's run of the task.
Run(w) ==
    \/ MarkRunning(w)
    \/ CreateLog(w)
    \/ ExecuteUnknownStep(w)
    \/ \E ok \in BOOLEAN : ExecuteStep(w, ok)
    \/ LogSuccess(w)
    \/ Advance(w)
    \/ LogFailed(w)
    \/ MarkFailed(w)
    \/ ScheduleRetry(w)
    \/ MarkSuccess(w)
    \/ UnexpectedError(w)

----------------------------------------------------------------------------
\* The engine run by one worker: at most one dispatch is active at a time.
Next ==
    \/ \E e \in ExecIds : Start(Owner, TheWorkflow, e)
    \/ \E r \in unsaved : SaveTaskId(r)
    \/ \E e \in ExecIds \cup {GhostId} : dispatched < MaxDispatch /\ Dispatch(e)
    \/ \E w \in Workers : \E m \in queue : Fetch(w, m)
    \/ \E w \in Workers : Run(w)
    \/ \E w \in Workers : Crash(w)

Spec == Init /\ [][Next]_vars

----------------------------------------------------------------------------
\* The engine run by two workers on two executions, each execution with at
\* most one worker at a time.

TwoExecIds == {"e1", "e2"}

\* The worker that takes the messages of an execution: workers are
\* interchangeable, so each execution is given one of its own.
WorkerOf == ("e1" :> "w1") @@ ("e2" :> "w2")

\* Ids are given out in the order of creation.
StartsInOrder(e) == e = "e2" => "e1" \in DOMAIN executions

InitTwo ==
    /\ steps \in SeqsUpTo(StepSpecs, MaxSteps)
    /\ workflows = (TheWorkflow :> NewWorkflow(TheWorkflow, Owner, JsonList(steps)))
    /\ request = NoBody
    /\ response = NoResponse
    /\ executions = << >>
    /\ logs = << >>
    /\ queue = {}
    /\ workers = [w \in Workers |-> IdleWorker]
    /\ unsaved = {}
    /\ clock = 0
    /\ nextTaskId = 1
    /\ dispatched = 0
    /\ edits = 0
    /\ ended = NoRun
    /\ calls = << >>
    /\ scheduled = << >>

NextTwo ==
    \/ \E e \in TwoExecIds : StartsInOrder(e) /\ Start(Owner, TheWorkflow, e)
    \/ \E r \in unsaved : SaveTaskId(r)
    \/ \E w \in Workers : \E m \in queue : w = WorkerOf[m.execution_id] /\ Fetch(w, m)
    \/ \E w \in Workers : Run(w)

SpecTwo == InitTwo /\ [][NextTwo]_vars

----------------------------------------------------------------------------
\* The engine run by one worker that does not die: the worker takes every
\* message the broker holds for it, a retry when its countdown has passed
\* included, and its run goes on, every handler returning or raising.

NextFair ==
    \/ \E e \in ExecIds : Start(Owner, TheWorkflow, e)
    \/ \E r \in unsaved : SaveTaskId(r)
    \/ \E w \in Workers : \E m \in queue : Fetch(w, m)
    \/ \E w \in Workers : Run(w)

Delivery == \E w \in Workers : \E m \in queue : Fetch(w, m)

Progress == \E w \in Workers : Run(w)

SpecFair ==
    /\ Init
    /\ [][NextFair]_vars
    /\ WF_vars(Delivery)
    /\ WF_vars(Progress)

----------------------------------------------------------------------------
\* The engine run by two workers on one execution: the message of the start
\* endpoint and a duplicate of it. Workers are interchangeable, so each task
\* id is given a worker of its own; a retry keeps the id of its task.

TakerOf(m) == IF m.id = 1 THEN "w1" ELSE "w2"

NextRace ==
    \/ \E e \in ExecIds : Start(Owner, TheWorkflow, e)
    \/ \E r \in unsaved : SaveTaskId(r)
    \/ \E e \in ExecIds : dispatched < MaxDispatch /\ Dispatch(e)
    \/ \E w \in Workers : \E m \in queue : w = TakerOf(m) /\ Fetch(w, m)
    \/ \E w \in Workers : Run(w)

SpecRace == InitTwo /\ [][NextRace]_vars

----------------------------------------------------------------------------
\* workflows/admin.py: WorkflowExecutionAdmin lists status among the fields of
\* its change form, so a staff user can put an execution into any status.

Statuses == {CREATED, RUNNING, SUCCESS, FAILED}

AdminChangeStatus(e, status) ==
    /\ edits < MaxEdits
    /\ e \in DOMAIN executions
    /\ status \in Statuses \ {executions[e].status}
    /\ executions' = [executions EXCEPT ![e].status = status]
    /\ edits' = edits + 1
    /\ UNCHANGED <<steps, workflows, request, response, logs, queue, workers, unsaved, clock, nextTaskId,
                   dispatched, ended, calls, scheduled>>

\* The engine run by one worker, with a staff user who edits the status.
NextReopen ==
    \/ \E e \in ExecIds : Start(Owner, TheWorkflow, e)
    \/ \E r \in unsaved : SaveTaskId(r)
    \/ \E e \in ExecIds : \E status \in Statuses : AdminChangeStatus(e, status)
    \/ \E w \in Workers : \E m \in queue : Fetch(w, m)
    \/ \E w \in Workers : Run(w)

SpecReopen == Init /\ [][NextReopen]_vars

----------------------------------------------------------------------------
\* workflows/tasks.py with a store that can fail a write: the statement raises
\* DatabaseError and the row stays as it was.

\* ExecutionLog.objects.create(...) raises: it stands outside the step's try,
\* so the exception reaches the task's except Exception.
CreateLogFails(w) ==
    /\ At(w, "create_log")
    /\ workers' = [workers EXCEPT ![w] =
            [@ EXCEPT !.pc = "unexpected", !.step_error = DatabaseError]]
    /\ UNCHANGED <<steps, workflows, request, response, executions, logs, queue,
                   unsaved, clock, nextTaskId, dispatched, edits, ended, calls,
                   scheduled>>

\* log_entry.save() of the success branch raises: it stands inside the step's
\* try, so except Exception as step_error takes it.
LogSuccessFails(w) ==
    /\ At(w, "log_success")
    /\ workers' = [workers EXCEPT ![w] =
            [@ EXCEPT !.pc = "log_failed", !.step_error = DatabaseError]]
    /\ UNCHANGED <<steps, workflows, request, response, executions, logs, queue,
                   unsaved, clock, nextTaskId, dispatched, edits, ended, calls,
                   scheduled>>

\* execution.save(update_fields=['current_step']) raises: inside the step's
\* try as well; the object keeps the current_step it was given.
AdvanceFails(w) ==
    /\ At(w, "advance")
    /\ workers' = [workers EXCEPT ![w] =
            [@ EXCEPT !.pc = "log_failed", !.step_error = DatabaseError,
                      !.execution.current_step =
                          NextCurrentStep(workers[w].step_index)]]
    /\ UNCHANGED <<steps, workflows, request, response, executions, logs, queue,
                   unsaved, clock, nextTaskId, dispatched, edits, ended, calls,
                   scheduled>>

\* log_entry.save() of the except branch raises: the exception leaves the
\* step's handler and reaches the task's except Exception.
LogFailedFails(w) ==
    /\ At(w, "log_failed")
    /\ workers' = [workers EXCEPT ![w] =
            [@ EXCEPT !.pc = "unexpected", !.step_error = DatabaseError]]
    /\ UNCHANGED <<steps, workflows, request, response, executions, logs, queue,
                   unsaved, clock, nextTaskId, dispatched, edits, ended, calls,
                   scheduled>>

\* A save of the execution outside the step's try raises (RUNNING, SUCCESS),
\* or the save of FAILED in the except branch does: the exception reaches the
\* task's except Exception.
MarkRunningFails(w) ==
    /\ At(w, "mark_running")
    /\ workers' = [workers EXCEPT ![w] =
            [@ EXCEPT !.pc = "unexpected", !.step_error = DatabaseError]]
    /\ UNCHANGED <<steps, workflows, request, response, executions, logs, queue,
                   unsaved, clock, nextTaskId, dispatched, edits, ended, calls,
                   scheduled>>

MarkFailedFails(w) ==
    /\ At(w, "mark_failed")
    /\ workers' = [workers EXCEPT ![w] =
            [@ EXCEPT !.pc = "unexpected", !.step_error = DatabaseError]]
    /\ UNCHANGED <<steps, workflows, request, response, executions, logs, queue,
                   unsaved, clock, nextTaskId, dispatched, edits, ended, calls,
                   scheduled>>

MarkSuccessFails(w) ==
    /\ At(w, "mark_success")
    /\ workers' = [workers EXCEPT ![w] =
            [@ EXCEPT !.pc = "unexpected", !.step_error = DatabaseError]]
    /\ UNCHANGED <<steps, workflows, request, response, executions, logs, queue,
                   unsaved, clock, nextTaskId, dispatched, edits, ended, calls,
                   scheduled>>

\* The get() or the save() inside the task's except Exception raises:
\* except: pass, and the exception being handled is raised again.
UnexpectedErrorFails(w) ==
    /\ At(w, "unexpected")
    /\ Finish(w, workers[w], Raised(workers[w].step_error))
    /\ UNCHANGED <<steps, workflows, request, response, executions, logs, queue,
                   unsaved, clock, nextTaskId, dispatched, edits, calls,
                   scheduled>>

\* The engine run by one worker on a store that can fail the writes of the
\* log rows, of the checkpoint and of the status.
NextWriteFail ==
    \/ \E e \in ExecIds : Start(Owner, TheWorkflow, e)
    \/ \E r \in unsaved : SaveTaskId(r)
    \/ \E w \in Workers : \E m \in queue : Fetch(w, m)
    \/ \E w \in Workers : Run(w)
    \/ \E w \in Workers : CreateLogFails(w)
    \/ \E w \in Workers : LogSuccessFails(w)
    \/ \E w \in Workers : AdvanceFails(w)
    \/ \E w \in Workers : LogFailedFails(w)
    \/ \E w \in Workers : MarkRunningFails(w)
    \/ \E w \in Workers : MarkFailedFails(w)
    \/ \E w \in Workers : MarkSuccessFails(w)
    \/ \E w \in Workers : UnexpectedErrorFails(w)

SpecWriteFail == Init /\ [][NextWriteFail]_vars

----------------------------------------------------------------------------
\* workflows/serializers.py: WorkflowSerializer.validate_steps.

\* JSON values: an object is the function of its keys, an array is a
\* JsonList, and any other value is known by its JSON type only.
JsonString == [json |-> "string"]
IsList(value) == "json" \in DOMAIN value /\ value.json = "list"
IsDict(value) == "json" \notin DOMAIN value

\* The steps a request body can carry: objects with any of the keys 'type',
\* 'name' and 'config', and a value that is no object.
StepKeys == {"type", "name", "config"}
FullSteps ==
    [type : {"data_fetch", "invalid_type"}, name : {"Fetch"},
     config : {[delay |-> 0], JsonString}]
StepValues ==
    { [k \in K |-> full[k]] : K \in SUBSET StepKeys, full \in FullSteps }
      \cup {JsonString}

\* The values of the 'steps' field a request body can carry.
Payloads ==
    { JsonList(items) : items \in SeqsUpTo(StepValues, MaxItems) }
      \cup {JsonString, [delay |-> 0]}

\* valid_step_types = ['data_fetch', 'data_process', 'ai_inference', 'notify_user']
valid_step_types == {"data_fetch", "data_process", "ai_inference", "notify_user"}

\* serializers.ValidationError(...) about the whole value or about step idx.
ValidationError(detail) == [kind |-> detail]
StepValidationError(idx, detail) == [kind |-> detail, idx |-> idx]

\* Mutants of StepError: a step's type, or its name, is not looked at.
StepError_AnyType(step, idx) ==
    IF ~IsDict(step) THEN StepValidationError(idx, "must be a dictionary")
    ELSE IF "type" \notin DOMAIN step
    THEN StepValidationError(idx, "must have a 'type' field")
    ELSE IF "name" \notin DOMAIN step
    THEN StepValidationError(idx, "must have a 'name' field")
    ELSE IF "config" \in DOMAIN step /\ ~IsDict(step.config)
    THEN StepValidationError(idx, "config must be a dictionary")
    ELSE NoError

\* The body of the loop of validate_steps: the error step idx raises, if any.
StepError(step, idx) ==
    IF ~IsDict(step) THEN StepValidationError(idx, "must be a dictionary")
    ELSE IF "type" \notin DOMAIN step
    THEN StepValidationError(idx, "must have a 'type' field")
    ELSE IF step.type \notin valid_step_types
    THEN StepValidationError(idx, "has invalid type")
    ELSE IF "name" \notin DOMAIN step
    THEN StepValidationError(idx, "must have a 'name' field")
    ELSE IF "config" \in DOMAIN step /\ ~IsDict(step.config)
    THEN StepValidationError(idx, "config must be a dictionary")
    ELSE NoError

\* validate_steps(value): the value itself, or the first error raised.
validate_steps(value) ==
    IF ~IsList(value)
    THEN [ok |-> FALSE, error |-> ValidationError("Steps must be a list")]
    ELSE IF Len(value.items) = 0
    THEN [ok |-> FALSE,
          error |-> ValidationError("Workflow must have at least one step")]
    ELSE LET bad == { i \in 1..Len(value.items) :
                         StepError(value.items[i], i - 1) # NoError }
         IN  IF bad = {} THEN [ok |-> TRUE, value |-> value]
             ELSE LET first == CHOOSE i \in bad : \A j \in bad : i <= j
                  IN  [ok |-> FALSE,
                       error |-> StepError(value.items[first], first - 1)]

----------------------------------------------------------------------------
\* workflows/views.py: the workflow routes besides start.

\* WorkflowSerializer(instance).data, as far as the model goes.
WorkflowData(workflow) ==
    [kind |-> "workflow", id |-> workflow.id, steps |-> workflow.steps]

\* The steps the workers read after value was stored as the steps of wf: the
\* workers run the executions of TheWorkflow.
StoredSteps(wf, value) == IF wf = TheWorkflow THEN value.items ELSE steps

\* POST /api/workflows/: the steps are validated; the workflow is stored for
\* the requesting user (201) or the request is rejected (400).
CreateWorkflow(u, wf, value) ==
    /\ wf \notin DOMAIN workflows
    /\ request' = value
    /\ LET validated == validate_steps(value)
       IN  IF validated.ok
           THEN LET workflow == NewWorkflow(wf, u, validated.value)
                IN  /\ workflows' = (wf :> workflow) @@ workflows
                    /\ steps' = StoredSteps(wf, validated.value)
                    /\ response' = Response(u, 201, WorkflowData(workflow))
           ELSE /\ workflows' = workflows
                /\ steps' = steps
                /\ response' = Response(u, 400, validated.error)
    /\ UNCHANGED <<executions, logs, queue, workers, unsaved, clock,
                   nextTaskId, dispatched, edits, ended, calls, scheduled>>

\* PUT /api/workflows/{id}/: get_object, then as for create.
UpdateWorkflow(u, wf, value) ==
    /\ GetWorkflow(u, wf)
    /\ request' = value
    /\ LET validated == validate_steps(value)
       IN  IF validated.ok
           THEN LET workflow == [workflows[wf] EXCEPT !.steps = validated.value]
                IN  /\ workflows' = [workflows EXCEPT ![wf] = workflow]
                    /\ steps' = StoredSteps(wf, validated.value)
                    /\ response' = Response(u, 200, WorkflowData(workflow))
           ELSE /\ workflows' = workflows
                /\ steps' = steps
                /\ response' = Response(u, 400, validated.error)
    /\ UNCHANGED <<executions, logs, queue, workers, unsaved, clock,
                   nextTaskId, dispatched, edits, ended, calls, scheduled>>

\* A route of a workflow that get_object does not find for the user: 404.
WorkflowNotFound(u, wf) ==
    /\ ~GetWorkflow(u, wf)
    /\ response' = Response(u, 404, [kind |-> "Not found"])
    /\ UNCHANGED <<steps, workflows, request, executions, logs, queue, workers, unsaved,
                   clock, nextTaskId, dispatched, edits, ended, calls, scheduled>>

\* len(obj.steps) if obj.steps else 0
get_steps_count(obj) == Len(obj.steps.items)

\* obj.executions.count()
get_executions_count(obj) ==
    Cardinality({ e \in DOMAIN executions : executions[e].workflow = obj.id })

\* GET /api/workflows/: WorkflowListSerializer over get_queryset().
WorkflowViewSet_list(user) ==
    { [id |-> wf, steps_count |-> get_steps_count(workflows[wf]),
       executions_count |-> get_executions_count(workflows[wf])] :
      wf \in WorkflowViewSet_get_queryset(user) }

\* WorkflowExecution.objects.filter(workflow__user=self.request.user)
WorkflowExecutionViewSet_get_queryset(user) ==
    { e \in DOMAIN executions : workflows[executions[e].workflow].user = user }

\* GET /api/workflows/executions/: WorkflowExecutionListSerializer over
\* get_queryset().
WorkflowExecutionViewSet_list(user) ==
    { [id |-> e, workflow |-> executions[e].workflow,
       status |-> executions[e].status,
       current_step |-> executions[e].current_step,
       started_at |-> executions[e].started_at,
       finished_at |-> executions[e].finished_at] :
      e \in WorkflowExecutionViewSet_get_queryset(user) }

\* The API with two users, without workers: the requests of the users and one
\* status edit of a staff user.
ApiExecIds == {"e1", "e2"}
ApiPayloads ==
    { JsonList(<<[type |-> "data_fetch", name |-> "Fetch"]>>),
      JsonList(<<[type |-> "data_fetch", name |-> "Fetch"],
                 [type |-> "data_fetch", name |-> "Fetch", config |-> [delay |-> 0]]>>),
      JsonList(<<[type |-> "invalid_type", name |-> "Fetch"]>>) }

InitApi ==
    /\ steps = << >>
    /\ workflows = << >>
    /\ request = NoBody
    /\ response = NoResponse
    /\ executions = << >>
    /\ logs = << >>
    /\ queue = {}
    /\ workers = [w \in Pool |-> IdleWorker]
    /\ unsaved = {}
    /\ clock = 0
    /\ nextTaskId = 1
    /\ dispatched = 0
    /\ edits = 0
    /\ ended = NoRun
    /\ calls = << >>
    /\ scheduled = << >>

NextApi ==
    \/ \E u \in Users : \E wf \in WorkflowIds : \E value \in ApiPayloads :
          CreateWorkflow(u, wf, value)
    \/ \E u \in Users : \E wf \in WorkflowIds : \E value \in ApiPayloads :
          UpdateWorkflow(u, wf, value)
    \/ \E u \in Users : \E wf \in WorkflowIds : WorkflowNotFound(u, wf)
    \/ \E u \in Users : \E wf \in WorkflowIds : \E e \in ApiExecIds :
          Start(u, wf, e)
    \/ \E r \in unsaved : SaveTaskId(r)
    \/ \E e \in ApiExecIds : \E status \in Statuses :
          edits = 0 /\ AdminChangeStatus(e, status)

SpecApi == InitApi /\ [][NextApi]_vars

\* The API and the engine: the owner creates the workflow with any request
\* body of Payloads and updates it with the bodies of ApiPayloads, starts an
\* execution, and one worker runs it. A run works on the steps it read at its
\* start (steps = workflow.steps), so an update is taken between the runs.
\* At the start there is no workflow, or there is one that was stored without
\* the API (the admin site, the ORM), with any steps.
InitStored ==
    /\ \/ /\ steps = << >>
          /\ workflows = << >>
       \/ /\ steps \in SeqsUpTo(StepSpecs, MaxSteps)
          /\ workflows = (TheWorkflow :> NewWorkflow(TheWorkflow, Owner, JsonList(steps)))
    /\ request = NoBody
    /\ response = NoResponse
    /\ executions = << >>
    /\ logs = << >>
    /\ queue = {}
    /\ workers = [w \in Pool |-> IdleWorker]
    /\ unsaved = {}
    /\ clock = 0
    /\ nextTaskId = 1
    /\ dispatched = 0
    /\ edits = 0
    /\ ended = NoRun
    /\ calls = << >>
    /\ scheduled = << >>

NextStored ==
    \/ \E value \in Payloads : CreateWorkflow(Owner, TheWorkflow, value)
    \/ \E value \in ApiPayloads :
          /\ \A w \in DOMAIN workers : workers[w].pc = "idle"
          /\ UpdateWorkflow(Owner, TheWorkflow, value)
    \/ \E e \in ExecIds : Start(Owner, TheWorkflow, e)
    \/ \E r \in unsaved : SaveTaskId(r)
    \/ \E w \in Workers : \E m \in queue : Fetch(w, m)
    \/ \E w \in Workers : Run(w)

SpecStored == InitStored /\ [][NextStored]_vars

\* The create endpoint alone, with every request body of Payloads.
NextCreate ==
    \E value \in Payloads : CreateWorkflow(Owner, TheWorkflow, value)

SpecCreate == InitApi /\ [][NextCreate]_vars

----------------------------------------------------------------------------
\* The properties.

Terminal == {SUCCESS, FAILED}

\* The log rows of execution e, in insertion order.
LogsOf(e) == SelectSeq(logs, LAMBDA r : r.execution = e)

\* x doubled n times.
RECURSIVE Doubled(_, _)
Doubled(x, n) == IF n = 0 THEN x ELSE Doubled(x + x, n - 1)

\* The rows and the handler invocations a step adds.
NewLogs == { logs'[i] : i \in (Len(logs) + 1)..Len(logs') }
NewCalls == { calls'[i] : i \in (Len(calls) + 1)..Len(calls') }

\* C1: the delivery of a message whose execution is SUCCESS or FAILED in the
\* store is the whole run: it ends at once with the stored status and the
\* 'Execution already completed' message, no worker is left at work on it, no
\* log row is created, no handler invoked, no retry scheduled, and the row
\* keeps every field.
C1_CompletedDispatchIsNoOp ==
    [][\A m \in queue :
          (/\ m \notin queue'
           /\ m.execution_id \in DOMAIN executions
           /\ executions[m.execution_id].status \in Terminal)
          => /\ ended'.request = m
             /\ ended'.result = Returned(executions[m.execution_id].status,
                                         AlreadyCompleted, NoTotal)
             /\ workers' = workers
             /\ executions' = executions
             /\ logs' = logs
             /\ calls' = calls
             /\ scheduled' = scheduled
             /\ queue' = queue \ {m}]_vars

\* A duplicate dispatch of an execution that had succeeded has ended as a no-op.
C1_Witness ==
    /\ ended.request.retries = 0
    /\ ended.entry.status = SUCCESS
    /\ ended.result = Returned(SUCCESS, AlreadyCompleted, NoTotal)

\* C2: when the retry that attempt 1 scheduled (request.retries = 1) has run,
\* the step that failed in attempt 1 has been run again: it has a second log
\* row.
C2_RetryRunsFailedStepAgain ==
    (ended.request.retries = 1 /\ ended.result.kind \in {"return", "raise"})
    => \E i \in DOMAIN scheduled :
          /\ scheduled[i].task = ended.request.id
          /\ scheduled[i].retries = 0
          /\ Cardinality({ j \in DOMAIN logs :
                 /\ logs[j].execution = ended.request.execution_id
                 /\ logs[j].step_index = scheduled[i].step_index }) >= 2

\* C3: no step of the engine lowers the stored current_step of an execution.
C3_CurrentStepNeverDecreases ==
    [][\A e \in DOMAIN executions :
          executions'[e].current_step >= executions[e].current_step]_vars

\* A second dispatch has taken an execution on from the checkpoint that a
\* crashed first dispatch left.
C3_Witness ==
    \E e \in DOMAIN executions :
        /\ executions[e].current_step = 2
        /\ \E i, j \in DOMAIN calls :
              /\ calls[i].execution = e /\ calls[j].execution = e
              /\ calls[i].task # calls[j].task
              /\ calls[i].step_index < calls[j].step_index

C5_UnknownTypeIsNotRetried ==
    /\ \A i \in DOMAIN calls :
          steps[calls[i].step_index + 1].type \in
              {"data_fetch", "data_process", "ai_inference", "notify_user"}
    /\ \A i \in DOMAIN scheduled : scheduled[i].cause.kind # "Unknown step type"

\* C6: a retry scheduled by an attempt with request.retries = n has the
\* countdown 60 * 2^n, and so has its message in the broker.
C6_BackoffDelay ==
    /\ \A i \in DOMAIN scheduled :
          scheduled[i].countdown = Doubled(60, scheduled[i].retries)
    /\ \A m \in queue :
          m.retries >= 1 => m.countdown = Doubled(60, m.retries - 1)

\* The attempts with retries 0, 1 and 2 have each scheduled a retry: 60, 120, 240.
C6_Witness ==
    /\ Len(scheduled) = 3
    /\ \A n \in 0..2 : scheduled[n + 1].retries = n
    /\ scheduled[1].countdown = 60
    /\ scheduled[2].countdown = 120
    /\ scheduled[3].countdown = 240

\* C7: at most 3 retries are ever scheduled for one execution id.
C7_AtMostThreeRetries ==
    \A e \in DOMAIN executions :
        Cardinality({ i \in DOMAIN scheduled : scheduled[i].execution = e }) <= 3

\* A retry was scheduled, it was delivered, and a duplicate dispatch ran after
\* it: none of them scheduled another.
C7_Witness ==
    /\ Len(scheduled) = 1
    /\ dispatched = 1
    /\ queue = {}
    /\ \A w \in DOMAIN workers : workers[w].pc = "idle"
    /\ ended.request.id # scheduled[1].task
    /\ ended.request.execution_id = scheduled[1].execution

\* C8: the save of FAILED by an attempt with request.retries = 3 ends the run:
\* the row is FAILED with finished_at and the step's error message, nothing goes
\* to the broker, and the task returns status FAILED with the stored
\* error_message.
C8_RetriesExhausted ==
    [][\A w \in DOMAIN workers :
          (/\ workers[w].pc = "mark_failed"
           /\ workers[w].request.retries = 3
           /\ workers'[w] # workers[w])
          => LET e == workers[w].request.execution_id
                 row == executions'[e]
             IN  /\ row.status = FAILED
                 /\ row.finished_at # NULL
                 /\ row.error_message.kind = "Failed at step"
                 /\ row.error_message.step_index = workers[w].step_index
                 /\ queue' = queue
                 /\ scheduled' = scheduled
                 /\ workers'[w] = IdleWorker
                 /\ ended'.request = workers[w].request
                 /\ ended'.result = Returned(FAILED, row.error_message, NoTotal)
      ]_vars

\* The attempt with retries = 3 has failed a step and has returned FAILED.
C8_Witness ==
    /\ ended.request.retries = 3
    /\ ended.result.kind = "return"
    /\ ended.result.status = FAILED
    /\ ended.result.message.kind = "Failed at step"
    /\ Len(scheduled) = 3

\* C9: a run that fetched its execution CREATED with current_step 0, ended, and
\* left no FAILED log row returned SUCCESS with total_steps = N, and the
\* execution is SUCCESS with current_step = N, started_at and finished_at set
\* and N log rows, the i-th one SUCCESS for step index i - 1.
C9_FreshSuccessfulRun ==
    LET e == ended.request.execution_id
        N == Len(steps)
    IN  (/\ ended.result.kind \in {"return", "raise"}
         /\ ended.entry.status = CREATED
         /\ ended.entry.current_step = 0
         /\ \A i \in DOMAIN logs :
               logs[i].execution = e => logs[i].status # FAILED)
        => /\ ended.result = Returned(SUCCESS, CompletedOk, N)
           /\ executions[e].status = SUCCESS
           /\ executions[e].current_step = N
           /\ executions[e].started_at # NULL
           /\ executions[e].finished_at # NULL
           /\ Len(LogsOf(e)) = N
           /\ \A i \in 1..N :
                 /\ LogsOf(e)[i].step_index = i - 1
                 /\ LogsOf(e)[i].status = SUCCESS

\* A fresh execution of a two-step workflow has succeeded in one run.
C9_Witness ==
    /\ Len(steps) = 2
    /\ ended.entry.status = CREATED
    /\ ended.result = Returned(SUCCESS, CompletedOk, 2)
    /\ Len(logs) = 2

\* C10: a run that fetched its execution with current_step = k creates its
\* first log row for step k, and creates no log row and invokes no handler for
\* a step index below k.
C10_ResumeAtCheckpoint ==
    [][\A w \in DOMAIN workers :
          LET wk == workers[w]
              mine(r) == r.execution = wk.request.execution_id
          IN  wk.pc \in {"create_log", "execute_step"} =>
                 /\ \A r \in NewLogs : mine(r) =>
                       /\ r.step_index >= wk.entry.current_step
                       /\ wk.log_entry = 0 =>
                             r.step_index = wk.entry.current_step
                 /\ \A c \in NewCalls : mine(c) =>
                       c.step_index >= wk.entry.current_step]_vars

\* A run that fetched a RUNNING execution with current_step = 1 is at step 1
\* with its first log row.
C10_Witness ==
    \E w \in DOMAIN workers :
        /\ workers[w].pc = "execute_step"
        /\ workers[w].entry.status = RUNNING
        /\ workers[w].entry.current_step = 1
        /\ workers[w].step_index = 1
        /\ logs[workers[w].log_entry].step_index = 1
        /\ Len(LogsOf(workers[w].request.execution_id)) = 2

\* C11: the delivery of a message whose execution id the store does not hold
\* is the whole run: it returns status ERROR with 'Execution not found', raises
\* nothing, schedules no retry, invokes no handler and leaves every Execution
\* and ExecutionLog row as it was.
C11_NotFoundDispatch ==
    [][\A m \in queue :
          (m \notin queue' /\ m.execution_id \notin DOMAIN executions)
          => /\ ended'.request = m
             /\ ended'.result.kind = "return"
             /\ ended'.result.status = "ERROR"
             /\ ended'.result.message = NotFound
             /\ queue' = queue \ {m}
             /\ scheduled' = scheduled
             /\ calls' = calls
             /\ executions' = executions
             /\ logs' = logs
             /\ workers' = workers]_vars

\* A dispatch of an id without a row has ended with the ERROR result.
C11_Witness ==
    /\ ended.request.execution_id = GhostId
    /\ ended.request.execution_id \notin DOMAIN executions
    /\ ended.result = Returned("ERROR", NotFound, NoTotal)

\* C12: a start request creates exactly one execution row, CREATED with
\* current_step 0, for the workflow of the request, and enqueues exactly one
\* dispatch, for the id of that row; it is answered 202 with status CREATED,
\* for that row; and neither step of the request changes another execution
\* row, or anything but task_id in its own.
C12_StartCreatesOneExecution ==
    [][LET created == DOMAIN executions' \ DOMAIN executions
           enqueued == queue' \ queue
           answered == unsaved \ unsaved'
       IN  /\ created # {} =>
                 /\ Cardinality(created) = 1
                 /\ \A e \in DOMAIN executions : executions'[e] = executions[e]
                 /\ \A e \in created :
                       /\ executions'[e].status = CREATED
                       /\ executions'[e].current_step = 0
                       /\ executions'[e].workflow \in DOMAIN workflows
                       /\ \E r \in unsaved' \ unsaved :
                             /\ r.execution.id = e
                             /\ r.execution.workflow = executions'[e].workflow
                             /\ workflows[r.execution.workflow].user = r.user
                       /\ Cardinality(enqueued) = 1
                       /\ \A m \in enqueued :
                             m.execution_id = e /\ m.retries = 0
                       /\ queue \subseteq queue'
           /\ answered # {} =>
                 \A r \in answered :
                    /\ response' = Response(r.user, 202,
                           [kind |-> "Workflow execution started",
                            execution_id |-> r.execution.id,
                            task_id |-> r.task_id, status |-> CREATED])
                    /\ DOMAIN executions' = DOMAIN executions
                    /\ \A e \in DOMAIN executions :
                          executions'[e] =
                             IF e = r.execution.id
                             THEN [executions[e] EXCEPT !.task_id = r.task_id]
                             ELSE executions[e]
                    /\ queue' = queue
           /\ \A e \in DOMAIN executions' :
                 Cardinality({ m \in queue' : m.execution_id = e }) = 1]_vars

\* A second start on a workflow has been answered, after the first execution of
\* the workflow had left CREATED.
C12_Witness ==
    /\ DOMAIN executions = {"e1", "e2"}
    /\ executions["e1"].workflow = executions["e2"].workflow
    /\ executions["e1"].status = FAILED
    /\ executions["e2"].status = CREATED
    /\ executions["e2"].task_id # NULL
    /\ unsaved = {}
    /\ response.status = 202
    /\ response.data.execution_id = "e2"

\* The rejected bodies: no array, an empty array, or an array with a step that
\* is no object, lacks 'type', has a type outside the four kinds, lacks 'name'
\* or has a 'config' that is no object.
Rejected(value) ==
    \/ ~IsList(value)
    \/ /\ IsList(value)
       /\ \/ value.items = << >>
          \/ \E i \in DOMAIN value.items :
                LET step == value.items[i]
                IN  \/ ~IsDict(step)
                    \/ /\ IsDict(step)
                       /\ \/ "type" \notin DOMAIN step
                          \/ "name" \notin DOMAIN step
                          \/ /\ "type" \in DOMAIN step
                             /\ step.type \notin {"data_fetch", "data_process",
                                                   "ai_inference", "notify_user"}
                          \/ /\ "config" \in DOMAIN step
                             /\ ~IsDict(step.config)

\* C13: a create request whose steps value is one of the rejected bodies is
\* answered 400 and stores nothing; a create request with any other steps
\* value is answered 201 and stores a workflow whose steps are that value.
C13_CreateValidatesSteps ==
    [][\A u \in Users : \A wf \in WorkflowIds :
          CreateWorkflow(u, wf, request') =>
             IF Rejected(request')
             THEN /\ response'.status = 400
                  /\ workflows' = workflows
             ELSE /\ response'.status = 201
                  /\ DOMAIN workflows' = DOMAIN workflows \cup {wf}
                  /\ workflows'[wf].steps = request'
                  /\ workflows'[wf].user = u
                  /\ response'.data.steps = request'
                  /\ \A other \in DOMAIN workflows :
                        workflows'[other] = workflows[other]]_vars

\* A request whose second step has a config that is no object was rejected.
C13_Witness ==
    /\ workflows = << >>
    /\ IsList(request)
    /\ Len(request.items) = 2
    /\ "config" \in DOMAIN request.items[2]
    /\ ~IsDict(request.items[2].config)
    /\ response = Response(Owner, 400,
          StepValidationError(1, "config must be a dictionary"))

\* The rows that belong to user u: the workflows u owns and the executions of
\* those workflows.
OwnWorkflows(u) ==
    { workflows[wf] : wf \in { x \in DOMAIN workflows : workflows[x].user = u } }
OwnExecutions(u) ==
    { executions[e] : e \in { x \in DOMAIN executions :
          \E row \in OwnWorkflows(u) : row.id = executions[x].workflow } }

\* What user u gets: the workflow list, the execution list, and which
\* workflows the routes of one workflow find.
Responses(u) ==
    <<WorkflowViewSet_list(u), WorkflowExecutionViewSet_list(u),
      { wf \in WorkflowIds : GetWorkflow(u, wf) }>>

\* C14: the workflow list of a user holds only workflows the user owns and the
\* execution list only executions of such workflows; a step that leaves the
\* user's own rows as they are, and any create, update or start request of
\* another user, leaves every response of the user as it is.
C14_ResponsesDependOnOwnData ==
    [][\A u \in Users :
          /\ \A item \in WorkflowViewSet_list(u)' :
                workflows'[item.id].user = u
          /\ \A item \in WorkflowExecutionViewSet_list(u)' :
                /\ executions'[item.id].workflow = item.workflow
                /\ workflows'[item.workflow].user = u
          /\ (OwnWorkflows(u)' = OwnWorkflows(u) /\ OwnExecutions(u)' = OwnExecutions(u))
                => Responses(u)' = Responses(u)
          /\ \A v \in Users \ {u} : \A wf \in WorkflowIds :
                (\/ CreateWorkflow(v, wf, request')
                 \/ UpdateWorkflow(v, wf, request')
                 \/ \E e \in ApiExecIds : Start(v, wf, e))
                => Responses(u)' = Responses(u)]_vars

\* Both users own a workflow with an execution, the execution of the one user
\* has been started and then changed, and the other user's lists show one
\* workflow and one execution, both that user's own.
C14_Witness ==
    /\ DOMAIN workflows = {"wf1", "wf2"}
    /\ workflows["wf1"].user = "alice"
    /\ workflows["wf2"].user = "bob"
    /\ DOMAIN executions = {"e1", "e2"}
    /\ executions["e1"].workflow = "wf1"
    /\ executions["e2"].workflow = "wf2"
    /\ executions["e2"].status = FAILED
    /\ Len(workflows["wf2"].steps.items) = 2
    /\ response.user = "bob"
    /\ response.status = 200
    /\ { item.id : item \in WorkflowViewSet_list("alice") } = {"wf1"}
    /\ { item.id : item \in WorkflowExecutionViewSet_list("alice") } = {"e1"}

\* The retry i of `scheduled` is the one the run that ended last was
\* delivered for, or the one that run scheduled itself.
EndedRetryOf(i) ==
    /\ ended.result.kind \in {"return", "raise"}
    /\ ended.request.id = scheduled[i].task
    /\ ended.request.retries = scheduled[i].retries + 1
EndedScheduled(i) ==
    /\ ended.result.kind \in {"return", "raise"}
    /\ ended.request.id = scheduled[i].task
    /\ ended.request.retries = scheduled[i].retries

\* C15: when the run of a scheduled retry has ended, it had fetched the
\* execution and taken it on from the checkpoint: it did not end as a no-op,
\* it invoked the handler of the step k that had failed (when k has one), and
\* step k has a log row after its FAILED one.
C15_RetryResumesFromCheckpoint ==
    \A i \in DOMAIN scheduled :
        EndedRetryOf(i) =>
           LET k == scheduled[i].step_index
               e == scheduled[i].execution
           IN  /\ ended.result.message # AlreadyCompleted
               /\ scheduled[i].cause = HandlerError =>
                     \E c \in DOMAIN calls :
                        /\ calls[c].task = ended.request.id
                        /\ calls[c].retries = ended.request.retries
                        /\ calls[c].step_index = k
               /\ \E a, b \in DOMAIN logs :
                     /\ a < b
                     /\ logs[a].execution = e /\ logs[b].execution = e
                     /\ logs[a].step_index = k /\ logs[b].step_index = k
                     /\ logs[a].status = FAILED

\* C16: when a run that failed step k and scheduled a retry has ended, the
\* stored error_message is the step-failure message of step k: its index, its
\* name and the cause.
C16_StepFailureMessageKept ==
    \A i \in DOMAIN scheduled :
        EndedScheduled(i) =>
           LET k == scheduled[i].step_index
               row == executions[scheduled[i].execution]
           IN  /\ row.error_message.kind # "Unexpected error"
               /\ row.error_message =
                     FailedAtMessage(k, StepName(steps[k + 1], k),
                                     scheduled[i].cause)

\* C17: a failed write of a log row or of the checkpoint is never handled as
\* the failure of a step: no log row is FAILED with it as the cause, no
\* execution has a step-failure error_message with it as the cause, and no
\* retry is scheduled for it.
C17_WriteFailureIsNotAStepFailure ==
    /\ \A i \in DOMAIN logs :
          logs[i].status = FAILED => logs[i].message.cause # DatabaseError
    /\ \A e \in DOMAIN executions :
          executions[e].error_message.kind = "Failed at step"
             => executions[e].error_message.cause # DatabaseError
    /\ \A i \in DOMAIN scheduled : scheduled[i].cause # DatabaseError

\* Execution e has a SUCCESS log row for step index i.
HasSuccessLog(e, i) ==
    \E r \in DOMAIN logs :
        /\ logs[r].execution = e
        /\ logs[r].step_index = i
        /\ logs[r].status = SUCCESS

\* C18: a step that changes the stored current_step sets it to i + 1, where i
\* is the step whose handler the saving run has invoked and whose log row the
\* run has closed as SUCCESS; and in every state, crashes included, each step
\* index below current_step has a SUCCESS log row.
C18_CheckpointAfterSuccess ==
    [][\A e \in DOMAIN executions' :
          /\ (e \in DOMAIN executions
               /\ executions'[e].current_step # executions[e].current_step)
                => \E w \in DOMAIN workers :
                      LET wk == workers[w]
                          i == wk.step_index
                      IN  /\ wk.request.execution_id = e
                          /\ executions'[e].current_step = i + 1
                          /\ logs[wk.log_entry].execution = e
                          /\ logs[wk.log_entry].step_index = i
                          /\ logs[wk.log_entry].status = SUCCESS
                          /\ calls[Len(calls)].task = wk.request.id
                          /\ calls[Len(calls)].step_index = i
          /\ \A i \in 0..(executions'[e].current_step - 1) :
                HasSuccessLog(e, i)']_vars

\* A worker crashed in the middle of step 1: the row of step 1 is left
\* RUNNING, its handler had been invoked, and the checkpoint is still 1.
C18_Witness ==
    \E e \in DOMAIN executions :
        /\ executions[e].status = RUNNING
        /\ executions[e].current_step = 1
        /\ \A w \in DOMAIN workers : workers[w].pc = "idle"
        /\ \E c \in DOMAIN calls : calls[c].step_index = 1
        /\ \E r \in DOMAIN logs :
              /\ logs[r].execution = e
              /\ logs[r].step_index = 1
              /\ logs[r].status = RUNNING
        /\ HasSuccessLog(e, 0)

\* C19: in every state of the store, current_step is the number of step
\* indices that have a SUCCESS log row.
C19_CheckpointAgreesWithLog ==
    \A e \in DOMAIN executions :
        executions[e].current_step =
            Cardinality({ i \in 0..(Len(steps) - 1) : HasSuccessLog(e, i) })

\* C20: a log row of step j >= 1 is created, and the handler of step j is
\* invoked, only in a state where the stored current_step is j and step j - 1
\* has a closed log row, a SUCCESS one.
C20_StepsInSequence ==
    [][/\ \A r \in NewLogs :
             r.step_index >= 1 =>
                /\ executions[r.execution].current_step = r.step_index
                /\ HasSuccessLog(r.execution, r.step_index - 1)
       /\ \A c \in NewCalls :
             c.step_index >= 1 =>
                /\ executions[c.execution].current_step = c.step_index
                /\ HasSuccessLog(c.execution, c.step_index - 1)]_vars

\* One run has closed step 0, saved the checkpoint 1 and invoked step 1.
C20_Witness ==
    /\ Len(calls) = 2
    /\ calls[1].task = calls[2].task
    /\ calls[1].step_index = 0
    /\ calls[2].step_index = 1
    /\ Len(logs) = 2
    /\ logs[1].status = SUCCESS
    /\ logs[2].status = RUNNING
    /\ executions[calls[2].execution].current_step = 1

\* The positions of a run between the failure of a step and the run's end.
FailedPcs == {"log_failed", "mark_failed", "retry", "unexpected"}

\* For every retry scheduled: the execution's current_step is the index k of
\* the step that failed, the attempt invoked no step above k, the execution
\* has no log row above k, and every step below k has its SUCCESS row.
FailedAttemptsKept ==
    \A i \in DOMAIN scheduled :
        LET e == scheduled[i].execution
            k == scheduled[i].step_index
        IN  /\ executions[e].current_step = k
            /\ \A c \in DOMAIN calls :
                  (calls[c].task = scheduled[i].task
                   /\ calls[c].retries = scheduled[i].retries)
                     => calls[c].step_index <= k
            /\ \A r \in DOMAIN logs :
                  logs[r].execution = e => logs[r].step_index <= k
            /\ \A j \in 0..(k - 1) : HasSuccessLog(e, j)

\* C21: from the failure of step k to the end of the attempt no log row is
\* created and no handler invoked, and the stored current_step stays k; and
\* once the attempt has scheduled its retry, current_step is k, no step above
\* k has a log row or a handler invocation of that attempt, and every step
\* below k has its SUCCESS row.
C21_FailureStopsTheAttempt ==
    [][/\ \A w \in DOMAIN workers :
             workers[w].pc \in FailedPcs =>
                LET e == workers[w].request.execution_id
                    k == workers[w].step_index
                IN  /\ logs' = logs \/ Len(logs') = Len(logs)
                    /\ calls' = calls
                    /\ executions[e].current_step = k
                    /\ executions'[e].current_step = k
                    /\ \A i \in 0..(k - 1) :
                          \E r \in DOMAIN logs' :
                             /\ logs'[r].execution = e
                             /\ logs'[r].step_index = i
                             /\ logs'[r].status = SUCCESS
       /\ FailedAttemptsKept']_vars

\* The attempt that completed step 0 failed at step 1 and has ended.
C21_Witness ==
    /\ Len(steps) = 2
    /\ Len(scheduled) = 1
    /\ scheduled[1].step_index = 1
    /\ ended.request.id = scheduled[1].task
    /\ ended.result.kind = "raise"
    /\ executions[scheduled[1].execution].current_step = 1
    /\ executions[scheduled[1].execution].status = FAILED
    /\ HasSuccessLog(scheduled[1].execution, 0)

\* C22: the run of a dispatch that fetched its execution CREATED first saves
\* status RUNNING, started_at and its task id, creating no log row and invoking
\* no handler in that step; and whenever it creates a log row or invokes a
\* handler, the store holds status RUNNING, a started_at and a task_id.
C22_RunningBeforeFirstStep ==
    [][\A w \in DOMAIN workers :
          LET wk == workers[w]
              e == wk.request.execution_id
              moved == /\ w \in DOMAIN workers'
                       /\ workers'[w].pc \notin {wk.pc, "idle"}
          IN  /\ (wk.pc = "mark_running" /\ moved) =>
                    /\ wk.entry.status = CREATED
                    /\ executions'[e].status = RUNNING
                    /\ executions'[e].started_at # NULL
                    /\ executions'[e].task_id = wk.request.id
                    /\ logs' = logs
                    /\ calls' = calls
              /\ (/\ wk.entry.status = CREATED
                  /\ \/ \E r \in NewLogs : r.execution = e
                     \/ \E c \in NewCalls : c.task = wk.request.id) =>
                    /\ wk.pc \in {"create_log", "execute_step"}
                    /\ executions[e].status = RUNNING
                    /\ executions[e].started_at # NULL
                    /\ executions[e].task_id # NULL
                    /\ wk.execution.task_id = wk.request.id]_vars

\* The run of a CREATED execution has created its first log row: the row in
\* the store is RUNNING with started_at and the run's task id.
C22_Witness ==
    \E w \in DOMAIN workers :
        /\ workers[w].pc = "execute_step"
        /\ workers[w].entry.status = CREATED
        /\ Len(logs) = 1
        /\ calls = << >>
        /\ executions[workers[w].request.execution_id].status = RUNNING
        /\ executions[workers[w].request.execution_id].started_at # NULL
        /\ executions[workers[w].request.execution_id].task_id =
              workers[w].request.id

Changed(e) ==
    { f \in DOMAIN executions[e] : executions'[e][f] # executions[e][f] }

\* The columns the write made at a position of a run names.
WriteFields(pc) ==
    CASE pc = "mark_running" -> {"status", "started_at", "task_id"}
      [] pc = "advance" -> {"current_step"}
      [] pc = "mark_failed" -> {"status", "finished_at", "error_message"}
      [] pc = "mark_success" -> {"status", "finished_at"}
      [] pc = "unexpected" -> {"status", "finished_at", "error_message"}
      [] OTHER -> {}

\* C24: a step changes, of an execution row, only the columns named by the
\* write it makes: task_id for the start endpoint's write, which so never
\* reverts status, started_at or current_step; and for a worker's step the
\* columns of the write at the worker's position; no other row changes.
C24_WritesAreFieldLocal ==
    [][\A e \in DOMAIN executions :
          /\ e \in DOMAIN executions'
          /\ Changed(e) \subseteq
                IF \E r \in unsaved \ unsaved' : r.execution.id = e
                THEN {"task_id"}
                ELSE UNION { WriteFields(workers[w].pc) :
                        w \in { x \in DOMAIN workers :
                                  /\ workers'[x] # workers[x]
                                  /\ workers[x].request.execution_id = e } }]_vars

\* The start endpoint wrote its task_id after the run of a duplicate dispatch
\* had marked the row RUNNING with its own and had saved a checkpoint: status,
\* started_at and current_step are the worker's.
C24_Witness ==
    \E w \in DOMAIN workers :
        LET wk == workers[w]
            e == wk.request.execution_id
        IN  /\ wk.pc # "idle"
            /\ wk.entry.status = CREATED
            /\ wk.execution.task_id = wk.request.id
            /\ unsaved = {}
            /\ response.status = 202
            /\ executions[e].task_id = response.data.task_id
            /\ executions[e].task_id # wk.request.id
            /\ executions[e].status = RUNNING
            /\ executions[e].started_at # NULL
            /\ executions[e].current_step = 1

----------------------------------------------------------------------------
\* The execution a step of worker w belongs to: the one of the message it runs
\* or has just fetched.
StepOf(w) ==
    IF workers[w].pc # "idle" THEN workers[w].request.execution_id
    ELSE workers'[w].request.execution_id

\* Everything has ended: no request is half done, no message is left, no
\* worker is at work.
Quiescent ==
    /\ DOMAIN executions = TwoExecIds
    /\ unsaved = {}
    /\ queue = {}
    /\ \A w \in DOMAIN workers : workers[w].pc = "idle"

\* What one dispatch after another leaves of execution e: k steps done and
\* logged, and either k is the number of steps and the status SUCCESS, or
\* step k has one FAILED row and the status is FAILED.
SequentialOutcome(e) ==
    LET N == Len(steps)
        rows == LogsOf(e)
        k == executions[e].current_step
    IN  /\ k \in 0..N
        /\ \A i \in 1..k : steps[i].type \in DOMAIN step_handlers
        /\ executions[e].status = (IF k = N THEN SUCCESS ELSE FAILED)
        /\ Len(rows) = (IF k = N THEN N ELSE k + 1)
        /\ \A i \in 1..Len(rows) :
              /\ rows[i].step_index = i - 1
              /\ rows[i].status = (IF i <= k THEN SUCCESS ELSE FAILED)
        /\ executions[e].started_at # NULL
        /\ executions[e].finished_at # NULL

\* C25: a step of a worker that runs a dispatch of execution A holds the row
\* of A only and leaves the row and the log rows of every other execution B as
\* they were, and when the workers of two executions have interleaved in any
\* way each execution is left as dispatches run one after another leave it.
C25_DistinctIdsAreIndependent ==
    /\ [](\A w \in DOMAIN workers :
            workers[w].pc # "idle"
            => /\ workers[w].execution.id = workers[w].request.execution_id
               /\ workers[w].entry.id = workers[w].request.execution_id)
    /\ [](Quiescent => \A e \in TwoExecIds : SequentialOutcome(e))
    /\ [][\A w \in DOMAIN workers :
            workers'[w] # workers[w]
            => \A b \in DOMAIN executions \ {StepOf(w)} :
                  /\ b \in DOMAIN executions'
                  /\ executions'[b] = executions[b]
                  /\ SelectSeq(logs', LAMBDA r : r.execution = b) = LogsOf(b)
                  /\ \A x \in DOMAIN workers :
                        (workers[x].pc # "idle" /\ workers[x].request.execution_id = b)
                        => workers'[x] = workers[x]]_vars

\* Two executions of a two-step workflow have ended, e1 with SUCCESS and e2
\* with FAILED, and a row of e2 lies between the rows of e1.
C25_Witness ==
    /\ Quiescent
    /\ Len(steps) = 2
    /\ executions["e1"].status = SUCCESS
    /\ executions["e2"].status = FAILED
    /\ \E i, j, k \in DOMAIN logs :
          /\ i < j /\ j < k
          /\ logs[i].execution = "e1"
          /\ logs[j].execution = "e2"
          /\ logs[k].execution = "e1"

----------------------------------------------------------------------------
\* C26: log rows are append-only: no step removes a row, a row is added
\* exactly when a worker starts an attempt of a step (one row for it), and a
\* row changes only by being closed: from RUNNING to SUCCESS or FAILED, once.
C26_LogRowsAppendOnly ==
    [][/\ Len(logs') \in {Len(logs), Len(logs) + 1}
       /\ Len(logs') = Len(logs) + 1
          <=> \E w \in DOMAIN workers :
                 /\ workers[w].pc = "create_log"
                 /\ workers'[w].pc = "execute_step"
                 /\ workers'[w].log_entry = Len(logs')
                 /\ logs'[Len(logs')].execution = workers[w].execution.id
                 /\ logs'[Len(logs')].step_index = workers[w].step_index
                 /\ logs'[Len(logs')].status = RUNNING
       /\ \A i \in DOMAIN logs :
             logs'[i] # logs[i]
             => /\ logs[i].status = RUNNING
                /\ logs'[i].status \in {SUCCESS, FAILED}
                /\ logs'[i].execution = logs[i].execution
                /\ logs'[i].step_index = logs[i].step_index
                /\ logs'[i].step_name = logs[i].step_name]_vars

----------------------------------------------------------------------------
\* Execution e has ended for good: its status is SUCCESS or FAILED, the broker
\* holds no message and no worker is at work.
Settled(e) ==
    /\ e \in DOMAIN executions
    /\ executions[e].status \in Terminal
    /\ queue = {}
    /\ \A w \in DOMAIN workers : workers[w].pc = "idle"

\* C27: with one worker that does not die, handlers that end and retries that
\* are delivered, an execution that was dispatched reaches SUCCESS or FAILED,
\* keeps the status it reached, and from some point on no message of it is
\* left and no run of it is going on.
C27_EveryExecutionSettles ==
    /\ \A e \in ExecIds : (e \in DOMAIN executions) ~> [](Settled(e))
    /\ [][\A e \in DOMAIN executions :
            executions[e].status \in Terminal
            => executions'[e].status = executions[e].status]_vars

\* A failed execution has settled after its retry was delivered and run.
C27_Witness ==
    /\ Settled("e1")
    /\ executions["e1"].status = FAILED
    /\ Len(scheduled) = 1
    /\ ended.request.retries = 1

----------------------------------------------------------------------------
\* C28: nothing arbitrates between two workers on one execution: a worker
\* that takes a message of a row that is not SUCCESS or FAILED passes the
\* completed-status check whatever the other worker is doing, and goes on
\* from the step the row's current_step names.
C28_NothingArbitrates ==
    [][\A m \in queue \ queue' :
          (/\ m.execution_id \in DOMAIN executions
           /\ executions[m.execution_id].status \notin Terminal)
          => \E w \in DOMAIN workers :
                /\ workers[w].pc = "idle"
                /\ workers'[w].pc \in {"mark_running", "create_log", "mark_success"}
                /\ workers'[w].request = m
                /\ workers'[w].entry = executions[m.execution_id]
                /\ workers'[w].pc = "create_log"
                   => workers'[w].step_index =
                          executions[m.execution_id].current_step]_vars

\* Two workers have run the same execution to the end: a step index has two
\* log rows, both SUCCESS, its handler was invoked twice, no step failed and
\* no retry was scheduled.
C28_Witness ==
    /\ \A w \in DOMAIN workers : workers[w].pc = "idle"
    /\ queue = {}
    /\ "e1" \in DOMAIN executions
    /\ executions["e1"].status = SUCCESS
    /\ scheduled = << >>
    /\ \A i \in DOMAIN logs : logs[i].status = SUCCESS
    /\ \E i, j \in DOMAIN logs :
          /\ i < j
          /\ logs[i].execution = "e1"
          /\ logs[j].execution = "e1"
          /\ logs[i].step_index = logs[j].step_index
    /\ Len(calls) = Len(logs)

----------------------------------------------------------------------------
\* C29: with two workers on one execution every write of a run puts the value
\* of that run on the row whatever the row holds: the checkpoint write puts
\* its step index plus one, the failure write FAILED, the success write
\* SUCCESS. So a slower worker brings current_step back and a failing worker
\* replaces SUCCESS with FAILED.
C29_WritesIgnoreTheStoredValue ==
    [][\A w \in DOMAIN workers :
          LET e == workers[w].request.execution_id
          IN  workers'[w] # workers[w]
              => /\ workers[w].pc = "advance"
                    => executions'[e].current_step = workers[w].step_index + 1
                 /\ workers[w].pc = "mark_failed"
                    => executions'[e].status = FAILED
                 /\ workers[w].pc = "mark_success"
                    => executions'[e].status = SUCCESS]_vars

\* Both runs of a two-step workflow have ended, one with both steps logged
\* SUCCESS, which wrote current_step = 2 and SUCCESS: the row is left with
\* current_step = 1 and FAILED by the run that failed at step 1.
C29_Witness ==
    /\ \A w \in DOMAIN workers : workers[w].pc = "idle"
    /\ queue = {}
    /\ Len(steps) = 2
    /\ "e1" \in DOMAIN executions
    /\ executions["e1"].status = FAILED
    /\ executions["e1"].current_step = 1
    /\ \E i, j \in DOMAIN logs :
          /\ logs[i].step_index = 1
          /\ logs[i].status = SUCCESS
          /\ logs[j].step_index = 1
          /\ logs[j].status = FAILED

----------------------------------------------------------------------------
\* The number of SUCCESS rows of step i of execution e among rows.
SuccessRows(rows, e, i) ==
    Cardinality({ r \in DOMAIN rows :
                    /\ rows[r].execution = e
                    /\ rows[r].step_index = i
                    /\ rows[r].status = SUCCESS })

\* C30: a dispatch that finds the row RUNNING at current_step = k goes on from
\* step k although step k has a SUCCESS row already (the worker before it
\* died between the two writes): it creates a new row for step k, invokes the
\* handler again and closes the new row, so step k gets one more SUCCESS row
\* (unless this worker dies too).
C30_StepsRunAtLeastOnce ==
    [][\A w \in DOMAIN workers :
          workers'[w] # workers[w]
          => /\ \A m \in queue \ queue' :
                   (/\ workers[w].pc = "idle"
                    /\ m.execution_id \in DOMAIN executions
                    /\ executions[m.execution_id].status = RUNNING
                    /\ executions[m.execution_id].current_step < Len(steps)
                    /\ SuccessRows(logs, m.execution_id,
                                   executions[m.execution_id].current_step) > 0)
                   => /\ workers'[w].pc = "create_log"
                      /\ workers'[w].step_index =
                             executions[m.execution_id].current_step
             /\ (workers[w].pc = "create_log" /\ workers'[w].pc # "idle")
                => /\ workers'[w].pc = "execute_step"
                   /\ Len(logs') = Len(logs) + 1
                   /\ logs'[Len(logs')].step_index = workers[w].step_index
                   /\ workers'[w].log_entry = Len(logs')
             /\ (workers[w].pc = "log_success" /\ workers'[w].pc # "idle")
                => SuccessRows(logs', workers[w].request.execution_id,
                               workers[w].step_index)
                   = SuccessRows(logs, workers[w].request.execution_id,
                                 workers[w].step_index) + 1]_vars

\* A run that found the row RUNNING at current_step = 1 has ended with
\* SUCCESS, and step 1 has two SUCCESS rows.
C30_Witness ==
    /\ \A w \in DOMAIN workers : workers[w].pc = "idle"
    /\ Len(steps) = 2
    /\ ended.entry.status = RUNNING
    /\ ended.entry.current_step = 1
    /\ ended.result = Returned(SUCCESS, CompletedOk, 2)
    /\ executions["e1"].status = SUCCESS
    /\ SuccessRows(logs, "e1", 0) = 1
    /\ SuccessRows(logs, "e1", 1) = 2
    /\ Len(logs) = 3

----------------------------------------------------------------------------
\* C31: of every execution the engine has worked on since it was created, a
\* status other than CREATED comes with started_at set, SUCCESS and FAILED
\* come with finished_at set, RUNNING comes with finished_at unset, and
\* started_at, once set, is never written again.
C31_TimestampsFollowStatus ==
    /\ [](\A e \in DOMAIN executions :
            /\ executions[e].status # CREATED => executions[e].started_at # NULL
            /\ executions[e].status \in Terminal => executions[e].finished_at # NULL
            /\ executions[e].status = RUNNING => executions[e].finished_at = NULL)
    /\ [][\A e \in DOMAIN executions :
            executions[e].started_at # NULL
            => executions'[e].started_at = executions[e].started_at]_vars

----------------------------------------------------------------------------
\* C32: an execution the engine has brought to SUCCESS has no error_message:
\* what a failed attempt wrote there is gone when a later attempt has
\* succeeded.
C32_SuccessHasNoErrorMessage ==
    [][\A w \in DOMAIN workers :
          LET e == workers[w].request.execution_id
          IN  (/\ workers[w].pc = "mark_success"
               /\ workers'[w].pc = "idle"
               /\ executions'[e].status = SUCCESS)
              => executions'[e].error_message = NoMessage]_vars

----------------------------------------------------------------------------
\* C33: with one worker, the current_step of an execution that started at 0
\* lies between 0 and the number of steps of its workflow, and a step that
\* changes it is a checkpoint write that adds one to it.
C33_CurrentStepCountsUp ==
    /\ [](\A e \in DOMAIN executions :
            executions[e].current_step \in 0..Len(steps))
    /\ [][\A e \in DOMAIN executions :
            executions'[e].current_step # executions[e].current_step
            => /\ executions'[e].current_step = executions[e].current_step + 1
               /\ \E w \in DOMAIN workers :
                     /\ workers[w].pc = "advance"
                     /\ workers[w].request.execution_id = e
                     /\ workers[w].step_index = executions[e].current_step
                     /\ workers'[w] # workers[w]]_vars

\* A dispatch that found the row RUNNING at current_step = 1 of two steps has
\* run step 1 and has left current_step = 2.
C33_Witness ==
    /\ \A w \in DOMAIN workers : workers[w].pc = "idle"
    /\ Len(steps) = 2
    /\ ended.entry.status = RUNNING
    /\ ended.entry.current_step = 1
    /\ ended.request.execution_id = "e1"
    /\ executions["e1"].current_step = 2

----------------------------------------------------------------------------
\* C34: the run of a CREATED execution of a workflow without steps invokes no
\* handler and creates no log row, returns SUCCESS with total_steps 0, and
\* leaves status SUCCESS, current_step 0, started_at and finished_at set.
C34_NoStepsSucceeds ==
    LET e == ended.request.execution_id
    IN  (/\ ended.result.kind \in {"return", "raise"}
         /\ ended.entry.status = CREATED
         /\ Len(steps) = 0)
        => /\ ended.result = Returned(SUCCESS, CompletedOk, 0)
           /\ executions[e].status = SUCCESS
           /\ executions[e].current_step = 0
           /\ executions[e].started_at # NULL
           /\ executions[e].finished_at # NULL
           /\ executions[e].error_message = NoMessage
           /\ logs = << >>
           /\ calls = << >>
           /\ scheduled = << >>

\* The run of a CREATED execution of a workflow without steps has ended.
C34_Witness ==
    /\ Len(steps) = 0
    /\ ended.entry.status = CREATED
    /\ ended.result.kind = "return"
    /\ \A w \in DOMAIN workers : workers[w].pc = "idle"

----------------------------------------------------------------------------
\* The steps value is a list of at least one step, each step an object with
\* a name and with a type the step registry knows.
KnownSteps(value) ==
    /\ IsList(value)
    /\ Len(value.items) >= 1
    /\ \A i \in 1..Len(value.items) :
          /\ IsDict(value.items[i])
          /\ "name" \in DOMAIN value.items[i]
          /\ "type" \in DOMAIN value.items[i]
          /\ value.items[i].type \in DOMAIN step_handlers

\* C35: the steps a create or an update request stores are a list of at least
\* one step, each step an object with a name and with a type the step
\* registry knows, and the run of an execution of a workflow with such steps
\* never comes to a step of unknown type.
C35_StoredStepsAreKnown ==
    /\ [][\A wf \in DOMAIN workflows' :
            (wf \notin DOMAIN workflows \/ workflows'[wf] # workflows[wf])
            => /\ workflows'[wf].steps = request'
               /\ KnownSteps(workflows'[wf].steps)]_vars
    /\ [](\A w \in DOMAIN workers :
            (/\ workers[w].pc # "idle"
             /\ KnownSteps(workflows[TheWorkflow].steps))
            => /\ workers[w].step_error.kind # "Unknown step type"
               /\ workers[w].pc = "execute_step"
                  => steps[workers[w].step_index + 1].type \in DOMAIN step_handlers)

\* The workflow was stored with the body of the last request, and the run of
\* an execution of it has invoked the handlers of its two steps and has ended
\* with SUCCESS.
C35_Witness ==
    /\ response.status = 202
    /\ TheWorkflow \in DOMAIN workflows
    /\ workflows[TheWorkflow].steps = request
    /\ Len(steps) = 2
    /\ Len(calls) = 2
    /\ ended.result.kind = "return"
    /\ ended.result.status = SUCCESS

====
